---- MODULE Spec2Model ----
(***************************************************************************)
(* fzsearch: the interactive pagination / selection loop of src/index.js.  *)
(*                                                                         *)
(* Fzsearch.prototype.run spawns one fzf picker, asks Search for the       *)
(* current page (Search.savedResults first, the provider otherwise) and    *)
(* feeds the labels to the picker once the promise resolves.  The picker's *)
(* 'exit' handler either ends the process, prints the selection or changes *)
(* options.pageNum and calls run() again.  Node runs every callback to     *)
(* completion, so each callback (with the promise reactions it queues) is  *)
(* one action.                                                             *)
(***************************************************************************)
EXTENDS Integers, Sequences, FiniteSets, TLC

VARIABLES
  options,       \* Fzsearch.options, shared by reference with every Search
  savedResults,  \* Search.savedResults, a sparse array: page index -> result
  runs,          \* run id -> the fzf and request of a run() call that still has
                 \* a callback to come (a settled run is garbage and is dropped)
  runCount,      \* calls of run() so far
  proc,          \* "running" or "exited" (the node process)
  exitCode,      \* exit status once proc = "exited", -1 before
  consoleLog,    \* values printed with console.log, in order
  consoleError,  \* number of errors printed with console.error
  unhandled,     \* promise rejections no handler took
  uncaught,      \* exceptions thrown out of an event handler
  rejectionsFatal, \* whether this node ends the process on an unhandled rejection
  requested,     \* history: page number -> requests sent to the provider for it
  nav,           \* history: the paging keys the exit handler has acted on
  lateWrite      \* history: stdin was written or ended on a fzf that was not live

vars == <<options, savedResults, runs, runCount, proc, exitCode, consoleLog,
          consoleError, unhandled, uncaught, rejectionsFatal, requested, nav,
          lateWrite>>

(***************************************************************************)
(* Bounds of the model.                                                    *)
(***************************************************************************)
\* calls of run() in one session
MaxRuns == 3
\* calls of run() in one session of the deeper specification
MaxRunsDeep == 4
\* documents the provider ranks for the query
TotalResults == 2
\* rankings the provider may answer with (its ranking drifts between requests)
NumVersions == 2
\* items of the longest page in the specification of the feed
MaxItems == 11

(***************************************************************************)
(* Strings are sequences of one-character strings, so that formatting a    *)
(* label and matching it against /^\[(\d+)\]/ are computed, not assumed.   *)
(***************************************************************************)
DigitChars == <<"0", "1", "2", "3", "4", "5", "6", "7", "8", "9">>

IsDigit(c) == \E i \in 1..10 : DigitChars[i] = c

DigitValue(c) == (CHOOSE i \in 1..10 : DigitChars[i] = c) - 1

RECURSIVE ToDigits(_)
\* decimal digits of a number >= 0, as the template literal `${index}` prints it
ToDigits(n) ==
  IF n < 10 THEN <<DigitChars[n + 1]>>
  ELSE ToDigits(n \div 10) \o <<DigitChars[(n % 10) + 1]>>

RECURSIVE FromDigits(_)
\* the number a non-empty string of digits denotes (array index coercion)
FromDigits(s) ==
  IF Len(s) = 1 THEN DigitValue(s[1])
  ELSE 10 * FromDigits(SubSeq(s, 1, Len(s) - 1)) + DigitValue(s[Len(s)])

(***************************************************************************)
(* The search provider (environment).  It ranks TotalResults documents;    *)
(* version v of the ranking is the list rotated by v - 1, so that two      *)
(* requests for the same page may be answered differently.                 *)
(***************************************************************************)
DocTitle(d) ==
  IF d % 2 = 0 THEN <<"[", "9", "]", " ", "t">> \o ToDigits(d)
  ELSE <<"t">> \o ToDigits(d)

DocUrl(d) == <<"u">> \o ToDigits(d)

Ranking(v) == [k \in 1..TotalResults |-> ((k + v - 2) % TotalResults) + 1]

\* the documents at zero-based ranks offset .. offset + count - 1
RankedSlice(v, offset, count) ==
  LET lo == IF offset < 0 THEN 1 ELSE offset + 1
      hi == IF offset + count > TotalResults THEN TotalResults ELSE offset + count
  IN  IF hi < lo THEN <<>> ELSE [i \in 1..(hi - lo + 1) |-> Ranking(v)[lo + i - 1]]

\* the HTML the web search answers with: one '.g > .r > a' anchor per result
GoogleBody(qs, v) ==
  LET docs == RankedSlice(v, qs.start, qs.num)
  IN  [i \in 1..Len(docs) |->
         [text |-> DocTitle(docs[i]),
          href |-> << <<"/url?q", DocUrl(docs[i])>>, <<"sa", <<"U">> >> >>]]

\* the JSON the Q&A API answers with
StackBody(qs, v) ==
  LET docs == RankedSlice(v, (qs.page - 1) * qs.pagesize, qs.pagesize)
  IN  [items |-> [i \in 1..Len(docs) |->
                    [title |-> DocTitle(docs[i]), question_id |-> docs[i]]]]

(***************************************************************************)
(* Search: request building and response parsing.                          *)
(***************************************************************************)
\* a query string whose start is the page number times the page size
GoogleQsFromPage(opts) ==
  [q     |-> opts.query,
   num   |-> opts.resultsPerPage,
   start |-> opts.pageNum * opts.resultsPerPage,
   ie    |-> "UTF-8",
   oe    |-> "UTF-8"]

GoogleQs(opts) ==
  [q     |-> opts.query,
   num   |-> opts.resultsPerPage,
   start |-> (opts.pageNum - 1) * opts.resultsPerPage,
   ie    |-> "UTF-8",
   oe    |-> "UTF-8"]

StackQs(opts) ==
  [q        |-> opts.query,
   page     |-> opts.pageNum,
   pagesize |-> opts.resultsPerPage,
   sort     |-> "relevance",
   site     |-> "stackoverflow"]

\* querystring.parse(href)[key]; the empty string stands for undefined
QuerystringGet(pairs, key) ==
  LET hits == {i \in 1..Len(pairs) : pairs[i][1] = key}
  IN  IF hits = {} THEN <<>>
      ELSE pairs[CHOOSE i \in hits : \A j \in hits : i <= j][2]

GoogleParse(body) ==
  [i \in 1..Len(body) |->
     [title |-> body[i].text, url |-> QuerystringGet(body[i].href, "/url?q")]]

StackParse(body) ==
  [i \in 1..Len(body.items) |->
     [title |-> body.items[i].title,
      url   |-> <<"http://stackoverflow.com/questions/">>
                  \o ToDigits(body.items[i].question_id)]]

\* asyncRun's switch: the request of the configured site
BuildQs(opts) == IF opts.site = "google" THEN GoogleQs(opts) ELSE StackQs(opts)

\* the resultForPage the request callback builds from the provider's version v
ResultForPage(site, qs, v) ==
  IF site = "google" THEN GoogleParse(GoogleBody(qs, v))
  ELSE StackParse(StackBody(qs, v))

(***************************************************************************)
(* Labels, picker output and its decoding.                                 *)
(***************************************************************************)
\* a label numbered from one
LabelOneBased(index, item) ==
  <<"[">> \o ToDigits(index + 1) \o <<"]", " ">> \o item.title

\* `[${index}] ${item.title}`, index zero-based
Label(index, item) == <<"[">> \o ToDigits(index) \o <<"]", " ">> \o item.title

\* a feed that writes a notice line when the page is empty
LabelsOrNotice(result) ==
  IF result = <<>> THEN <<<<"(", "n", "o", "n", "e", ")">>>>
  ELSE [i \in 1..Len(result) |-> Label(i - 1, result[i])]

\* the lines result.forEach writes with stdinWrite
Labels(result) == [i \in 1..Len(result) |-> Label(i - 1, result[i])]

RECURSIVE Split(_)
\* stdout.split('\n')
Split(s) ==
  LET nl == {i \in 1..Len(s) : s[i] = "\n"}
  IN  IF nl = {} THEN <<s>>
      ELSE LET i == CHOOSE k \in nl : \A j \in nl : k <= j
           IN  <<SubSeq(s, 1, i - 1)>> \o Split(SubSeq(s, i + 1, Len(s)))

\* number of digits s has from position i on
DigitRun(s, i) ==
  LET stops == {k \in i..Len(s) : ~IsDigit(s[k])}
  IN  IF stops = {} THEN Len(s) - i + 1
      ELSE (CHOOSE k \in stops : \A j \in stops : k <= j) - i

\* string.match(/^\[(\d+)\]/): <<>> for null, else <<capture group 1>>
MatchIndex(s) ==
  IF Len(s) >= 3 /\ s[1] = "["
  THEN LET n == DigitRun(s, 2)
       IN  IF n >= 1 /\ Len(s) >= n + 2 /\ s[n + 2] = "]"
           THEN <<SubSeq(s, 2, n + 1)>> ELSE <<>>
  ELSE <<>>

\* array[index] for a string of digits: <<>> for undefined, else <<element>>
ArrayGet(array, index) ==
  LET i == FromDigits(index)
  IN  IF i + 1 \in DOMAIN array THEN <<array[i + 1]>> ELSE <<>>

\* what console.log prints for searchResult[index]
Inspect(value) ==
  IF value = <<>> THEN <<"undefined">>
  ELSE <<"{ title: '">> \o value[1].title \o <<"', url: '">> \o value[1].url \o <<"' }">>

\* what fzf can print before it exits, given the lines it has read: nothing
\* at all (it was interrupted); the --expect key line alone (a paging key, or
\* Enter with no line to select); the empty key line and the line selected
PickerOutputs(stdin) ==
  {<<>>} \cup
  {key \o <<"\n">> : key \in {<<>>, <<"ctrl-n">>, <<"ctrl-p">>}} \cup
  {<<"\n">> \o stdin[i] \o <<"\n">> : i \in 1..Len(stdin)}

(***************************************************************************)
(* Fzsearch.                                                               *)
(***************************************************************************)
\* resultsPerPage when argv.l is absent
DefaultResultsPerPage == 30

\* values of argv.l; 0 stands for an absent (falsy) -l
ArgvLengths == {0, 1}

\* values of argv.s; "undefined" stands for an absent -s
ArgvSites == {"undefined", "stack"}

\* the options object the constructor builds
FzsearchOptions(argv) ==
  [query          |-> argv.query,
   site           |-> IF argv.s = "undefined" THEN "google" ELSE argv.s,
   pageNum        |-> 1,
   resultsPerPage |-> IF argv.l = 0 THEN DefaultResultsPerPage ELSE argv.l]

\* the 'Use saved result if exists' test: an array, even an empty one, is truthy
HasSaved(saved, pageNum) == pageNum \in DOMAIN saved

\* Search.savedResults[pageNum] = resultForPage
SaveResult(saved, pageNum, resultForPage) ==
  [p \in DOMAIN saved \cup {pageNum} |->
     IF p = pageNum THEN resultForPage ELSE saved[p]]

\* the first half of run(): a new Fzf is started, a new Search is asked for
\* the page.  On a cache hit the promise is already resolved and its reaction
\* (labels written, stdin ended) runs before any other event.
NewRun(opts, saved) ==
  LET hit == HasSaved(saved, opts.pageNum)
      result == IF hit THEN saved[opts.pageNum] ELSE <<>>
  IN  [fzf        |-> "live",
       stdin      |-> IF hit THEN Labels(result) ELSE <<>>,
       stdinEnded |-> hit,
       stdout     |-> <<>>,
       page       |-> opts.pageNum,
       qs         |-> BuildQs(opts),
       request    |-> IF hit THEN "none" ELSE "pending",
       result     |-> result]

\* the requests sent so far, after run() was called with these options
Requested(req, opts, saved) ==
  IF HasSaved(saved, opts.pageNum) THEN req
  ELSE [p \in DOMAIN req \cup {opts.pageNum} |->
          IF p \in DOMAIN req
          THEN (IF p = opts.pageNum THEN req[p] + 1 ELSE req[p])
          ELSE 1]

\* what .catch's callback returns: undefined, written as the empty option
CatchResult == <<>>

\* whether the .then callback throws: result.forEach fails on undefined
ThenThrows(value) == value = <<>>

\* ctrl-p without the test against 1
PrevPageUnguarded(pageNum) == pageNum - 1

\* the ctrl-p case: pageNum is decremented unless it is 1
PrevPage(pageNum) == IF pageNum > 1 THEN pageNum - 1 ELSE pageNum

\* the ctrl-n case
NextPage(pageNum) == pageNum + 1

\* a run is settled once its fzf has closed and its request is not pending:
\* no callback of it is left
Settled(run) == run.fzf = "closed" /\ run.request # "pending"

\* the runs that still have a callback to come
Tidy(rs) == [r \in {x \in DOMAIN rs : ~Settled(rs[x])} |-> rs[r]]

Init ==
  /\ \E s \in ArgvSites, l \in ArgvLengths :
       options = FzsearchOptions([query |-> "widgets", s |-> s, l |-> l])
  /\ savedResults = <<>>
  /\ runs = [r \in {1} |-> NewRun(options, savedResults)]
  /\ runCount = 1
  /\ proc = "running"
  /\ exitCode = -1
  /\ consoleLog = <<>>
  /\ consoleError = 0
  /\ unhandled = 0
  /\ uncaught = 0
  /\ rejectionsFatal \in BOOLEAN
  /\ requested = Requested(<<>>, options, savedResults)
  /\ nav = <<>>
  /\ lateWrite = FALSE

\* the request callback of run r, status 200 and no error: the result is
\* stored under the page number options holds NOW, the promise resolves and
\* the .then reaction writes the labels to run r's fzf and ends its stdin
\* (lateWrite records that this fzf was no longer live; what the stream does
\* with such a write is not followed further)
RequestSuccess(r, v) ==
  /\ proc = "running"
  /\ runs[r].request = "pending"
  /\ LET resultForPage == ResultForPage(options.site, runs[r].qs, v)
     IN  /\ savedResults' = SaveResult(savedResults, options.pageNum, resultForPage)
         /\ runs' = Tidy([runs EXCEPT ![r] =
                            [@ EXCEPT !.request = "ok",
                                      !.result = resultForPage,
                                      !.stdin = @ \o Labels(resultForPage),
                                      !.stdinEnded = TRUE]])
  /\ lateWrite' = (lateWrite \/ runs[r].fzf # "live")
  /\ UNCHANGED <<options, runCount, proc, exitCode, consoleLog, consoleError,
                 unhandled, uncaught, rejectionsFatal, requested, nav>>

\* the request callback of run r with an error or a status other than 200:
\* the promise rejects; .catch kills run r's fzf and prints the error, and
\* returns undefined, so the .then reaction runs with result undefined and
\* result.forEach throws a TypeError no handler takes
RequestFailure(r) ==
  /\ proc = "running"
  /\ runs[r].request = "pending"
  /\ runs' = Tidy([runs EXCEPT ![r] =
                     [@ EXCEPT !.request = "failed",
                               !.fzf = IF @ = "live" THEN "killed" ELSE @]])
  /\ consoleError' = consoleError + 1
  /\ unhandled' = IF ThenThrows(CatchResult) THEN unhandled + 1 ELSE unhandled
  /\ IF rejectionsFatal /\ unhandled' > unhandled
     THEN proc' = "exited" /\ exitCode' = 1
     ELSE UNCHANGED <<proc, exitCode>>
  /\ UNCHANGED <<options, savedResults, runCount, consoleLog, uncaught,
                 rejectionsFatal, requested, nav, lateWrite>>

\* the user ends run r's fzf: it prints out and exits ('close' comes later)
FzfExit(r, out, maxRuns) ==
  /\ proc = "running"
  /\ runs[r].fzf = "live"
  /\ out \in PickerOutputs(runs[r].stdin)
  /\ Split(out)[1] \in {<<"ctrl-n">>, <<"ctrl-p">>} => runCount < maxRuns
  /\ runs' = [runs EXCEPT ![r] = [@ EXCEPT !.fzf = "exited", !.stdout = out]]
  /\ UNCHANGED <<options, savedResults, runCount, proc, exitCode, consoleLog,
                 consoleError, unhandled, uncaught, rejectionsFatal, requested,
                 nav, lateWrite>>

\* runs with run r's fzf closed
Closed(r) == [runs EXCEPT ![r] = [@ EXCEPT !.fzf = "closed"]]

\* process.exit(1)
ExitHandlerAbort(r) ==
  /\ runs' = Tidy(Closed(r))
  /\ proc' = "exited"
  /\ exitCode' = 1
  /\ UNCHANGED <<options, savedResults, runCount, consoleLog, consoleError,
                 unhandled, uncaught, rejectionsFatal, requested, nav, lateWrite>>

\* case 'ctrl-n' / case 'ctrl-p': the page number changes and run() is called
ExitHandlerPage(r, keyInput, pageNum) ==
  /\ options' = [options EXCEPT !.pageNum = pageNum]
  /\ runCount' = runCount + 1
  /\ runs' = LET rs == Tidy(Closed(r))
             IN  [x \in DOMAIN rs \cup {runCount'} |->
                    IF x = runCount' THEN NewRun(options', savedResults) ELSE rs[x]]
  /\ requested' = Requested(requested, options', savedResults)
  /\ nav' = Append(nav, keyInput[1])
  /\ UNCHANGED <<savedResults, proc, exitCode, consoleLog, consoleError,
                 unhandled, uncaught, rejectionsFatal, lateWrite>>

\* a TypeError thrown inside the handler ends the process with status 1
ExitHandlerThrow(r) ==
  /\ runs' = Tidy(Closed(r))
  /\ uncaught' = uncaught + 1
  /\ proc' = "exited"
  /\ exitCode' = 1
  /\ UNCHANGED <<options, savedResults, runCount, consoleLog, consoleError,
                 unhandled, rejectionsFatal, requested, nav, lateWrite>>

\* a default case that also puts the page number back to 1
ExitHandlerSelectRewinding(r, lines) ==
  LET match == IF Len(lines) >= 2 THEN MatchIndex(lines[2]) ELSE <<>>
  IN  IF match = <<>> \/ ~HasSaved(savedResults, options.pageNum)
      THEN ExitHandlerThrow(r)
      ELSE /\ runs' = Tidy(Closed(r))
           /\ consoleLog' =
                Append(consoleLog,
                       Inspect(ArrayGet(savedResults[options.pageNum], match[1])))
           /\ options' = [options EXCEPT !.pageNum = 1]
           /\ UNCHANGED <<savedResults, runCount, proc, exitCode,
                          consoleError, unhandled, uncaught, rejectionsFatal,
                          requested, nav, lateWrite>>

\* the default case: the selected line is matched and the entry is printed
ExitHandlerSelect(r, lines) ==
  LET match == IF Len(lines) >= 2 THEN MatchIndex(lines[2]) ELSE <<>>
  IN  IF match = <<>> \/ ~HasSaved(savedResults, options.pageNum)
      THEN ExitHandlerThrow(r)
      ELSE /\ runs' = Tidy(Closed(r))
           /\ consoleLog' =
                Append(consoleLog,
                       Inspect(ArrayGet(savedResults[options.pageNum], match[1])))
           /\ UNCHANGED <<options, savedResults, runCount, proc, exitCode,
                          consoleError, unhandled, uncaught, rejectionsFatal,
                          requested, nav, lateWrite>>

\* fzf.on('exit', ...) for run r, fired by the 'close' of its process
FzfClose(r) ==
  /\ proc = "running"
  /\ runs[r].fzf \in {"exited", "killed"}
  /\ LET stdout == runs[r].stdout
     IN  IF stdout = <<>>
         THEN ExitHandlerAbort(r)
         ELSE LET lines == Split(stdout)
                  keyInput == lines[1]
              IN  CASE keyInput = <<"ctrl-n">> ->
                         ExitHandlerPage(r, keyInput, NextPage(options.pageNum))
                    [] keyInput = <<"ctrl-p">> ->
                         ExitHandlerPage(r, keyInput, PrevPage(options.pageNum))
                    [] OTHER -> ExitHandlerSelect(r, lines)

\* nothing is left to wait for: node ends with status 0
EventLoopEmpty ==
  /\ proc = "running"
  /\ DOMAIN runs = {}
  /\ proc' = "exited"
  /\ exitCode' = 0
  /\ UNCHANGED <<options, savedResults, runs, runCount, consoleLog, consoleError,
                 unhandled, uncaught, rejectionsFatal, requested, nav, lateWrite>>

\* one event of the session, with at most maxRuns calls of run()
Step(maxRuns) ==
  \/ \E r \in DOMAIN runs, v \in 1..NumVersions : RequestSuccess(r, v)
  \/ \E r \in DOMAIN runs : RequestFailure(r)
  \/ \E r \in DOMAIN runs :
       \E out \in PickerOutputs(runs[r].stdin) : FzfExit(r, out, maxRuns)
  \/ \E r \in DOMAIN runs : FzfClose(r)
  \/ EventLoopEmpty

Next == Step(MaxRuns)

Spec == Init /\ [][Next]_vars

NextDeep == Step(MaxRunsDeep)

\* the same system with one more call of run() allowed
SpecDeep == Init /\ [][NextDeep]_vars

\* a resultForPage of n {title, url} entries
PageOfItems(n) == [k \in 1..n |-> [title |-> DocTitle(k), url |-> DocUrl(k)]]

\* the request callback of run r, status 200 and no error, for a response that
\* parses to resultForPage: it is saved, and the .then reaction writes its
\* labels to run r's fzf and ends its stdin
Answered(r, resultForPage) ==
  /\ proc = "running"
  /\ runs[r].request = "pending"
  /\ savedResults' = SaveResult(savedResults, options.pageNum, resultForPage)
  /\ runs' = Tidy([runs EXCEPT ![r] =
                     [@ EXCEPT !.request = "ok",
                               !.result = resultForPage,
                               !.stdin = @ \o Labels(resultForPage),
                               !.stdinEnded = TRUE]])
  /\ lateWrite' = (lateWrite \/ runs[r].fzf # "live")
  /\ UNCHANGED <<options, runCount, proc, exitCode, consoleLog, consoleError,
                 unhandled, uncaught, rejectionsFatal, requested, nav>>

\* one event of a session of a single run() whose page has up to MaxItems
\* items: the response, the picker's exit, its exit handler, the end of node
NextFeed ==
  \/ \E r \in DOMAIN runs, n \in 0..MaxItems : Answered(r, PageOfItems(n))
  \/ \E r \in DOMAIN runs :
       \E out \in PickerOutputs(runs[r].stdin) : FzfExit(r, out, 1)
  \/ \E r \in DOMAIN runs : FzfClose(r)
  \/ EventLoopEmpty

\* the feed of one page and the decoding of the line selected from it
SpecFeed == Init /\ [][NextFeed]_vars

(***************************************************************************)
(* Properties.                                                             *)
(***************************************************************************)
\* the fzf of run r is closed by this step (its exit handler runs)
Closes(r) ==
  /\ r \in DOMAIN runs
  /\ runs[r].fzf \in {"exited", "killed"}
  /\ r \in DOMAIN runs' => runs'[r].fzf = "closed"

\* the request of run r fails in this step
Fails(r) ==
  /\ r \in DOMAIN runs
  /\ runs[r].request = "pending"
  /\ consoleError' = consoleError + 1
  /\ r \in DOMAIN runs' => runs'[r].request = "failed"

RECURSIVE ApplyNav(_)
\* the page number reached from 1 by the paging keys in keys, in order
ApplyNav(keys) ==
  IF keys = <<>> THEN 1
  ELSE LET before == ApplyNav(SubSeq(keys, 1, Len(keys) - 1))
       IN  IF keys[Len(keys)] = "ctrl-n" THEN before + 1
           ELSE IF before = 1 THEN 1 ELSE before - 1

\* C1: the provider is asked at most once for each page number.
RequestedAtMostOnce == \A p \in DOMAIN requested : requested[p] <= 1

\* C2: when a picker ends with the empty key line and a line "[i] ...", what is
\* printed is the url of item i of the page whose labels that picker was fed.
SelectionPrintsUrlOfFedPage ==
  [][\A r \in DOMAIN runs :
       LET lines == Split(runs[r].stdout)
       IN  (/\ Closes(r)
            /\ runs[r].stdout # <<>>
            /\ lines[1] = <<>>
            /\ Len(lines) >= 2
            /\ MatchIndex(lines[2]) # <<>>)
           => consoleLog' =
                Append(consoleLog,
                       runs[r].result[FromDigits(MatchIndex(lines[2])[1]) + 1].url)
    ]_vars

\* C3: at most one picker is live and at most one request is outstanding.
OnePickerOneFetch ==
  /\ Cardinality({r \in DOMAIN runs : runs[r].fzf = "live"}) <= 1
  /\ Cardinality({r \in DOMAIN runs : runs[r].request = "pending"}) <= 1

\* C4: the page number starts at 1 and is never below 1; ctrl-p at page 1
\* leaves it at 1, ctrl-p at page p > 1 makes it p - 1, and no other step
\* decreases it.
PageNumAtLeastOne ==
  /\ options.pageNum = 1
  /\ [](options.pageNum >= 1)
  /\ [][/\ nav' = Append(nav, "ctrl-p") =>
             options'.pageNum =
               IF options.pageNum = 1 THEN 1 ELSE options.pageNum - 1
        /\ options'.pageNum < options.pageNum => nav' = Append(nav, "ctrl-p")
       ]_vars

\* C4 witness: ctrl-p was handled at page 1 and the page number is still 1.
PrevAtFirstPage == nav = <<"ctrl-p">> /\ options.pageNum = 1

\* C5: the newest picker shows the page the paging keys lead to from 1, and
\* the items it was fed are an answer of the provider for that page number.
RenderedInNavigationOrder ==
  \A r \in DOMAIN runs :
    r = runCount =>
      /\ runs[r].page = ApplyNav(nav)
      /\ runs[r].stdinEnded =>
           \E v \in 1..NumVersions :
             runs[r].result =
               ResultForPage(options.site,
                             BuildQs([options EXCEPT !.pageNum = ApplyNav(nav)]), v)

\* C6: a failed request for the current page leaves no picker live, and once
\* a run's request has failed no further run (picker, request) is started.
FetchFailureAborts ==
  [][\A r \in DOMAIN runs :
       /\ (Fails(r) /\ runs[r].page = options.pageNum) =>
            \A x \in DOMAIN runs' : runs'[x].fzf # "live"
       /\ runs[r].request = "failed" => runCount' = runCount
    ]_vars

\* C7: a failed request writes nothing to its picker, does not end its input
\* as a feed, and raises no error besides the one reported.
FailureRaisesOneError ==
  /\ \A r \in DOMAIN runs :
       runs[r].request = "failed" => runs[r].stdin = <<>> /\ ~runs[r].stdinEnded
  /\ unhandled = 0

\* C8: a picker that ends with no output, or with the empty key line and no
\* selected line, ends the process with status 1: nothing is printed, the page
\* number stays, no run is started and no exception is thrown.
EmptyOutputAborts ==
  [][\A r \in DOMAIN runs :
       (Closes(r) /\ runs[r].stdout \in {<<>>, <<"\n">>}) =>
         /\ proc' = "exited" /\ exitCode' = 1
         /\ consoleLog' = consoleLog
         /\ options' = options
         /\ runCount' = runCount
         /\ uncaught' = uncaught
    ]_vars

\* C9: a picker is open only once its page is there, so no picker ends while
\* the request of its run is outstanding.
PickerOpenedAfterFetch ==
  \A r \in DOMAIN runs :
    runs[r].fzf \in {"live", "exited"} => runs[r].request \in {"none", "ok"}

\* C10: a saved page is never replaced or removed.
SavedResultsWriteOnce ==
  [][\A p \in DOMAIN savedResults :
       p \in DOMAIN savedResults' /\ savedResults'[p] = savedResults[p]]_vars

\* the paging step a closing run with this output must produce
PagedBy(r, key, pageNum) ==
  runs[r].stdout = <<key, "\n">> =>
    /\ options'.pageNum = pageNum
    /\ runCount' = runCount + 1
    /\ runCount' \in DOMAIN runs'
    /\ runs'[runCount'].fzf = "live"
    /\ runs'[runCount'].page = pageNum
    /\ runs'[runCount'].request \in {"pending", "none"}

\* the picker of run r can be left with no output (what enables FzfExit)
CanAbort(r) == proc = "running" /\ runs[r].fzf = "live"

\* the exit handler of run r can run (what enables FzfClose)
CanClose(r) == proc = "running" /\ runs[r].fzf \in {"exited", "killed"}

\* C11: a run whose page came back empty has its picker's input ended with no
\* label written; when such a picker closes nothing is printed as a selection,
\* while ctrl-n and ctrl-p still change the page (ctrl-p not below 1) and
\* start a new run for it; and as long as the process runs and nothing was
\* selected, some picker can be left or have its exit handled.
EmptyPageSession ==
  /\ [](\A r \in DOMAIN runs :
         (runs[r].request \in {"ok", "none"} /\ runs[r].result = <<>>) =>
           runs[r].stdin = <<>> /\ runs[r].stdinEnded)
  /\ [][\A r \in DOMAIN runs :
         (Closes(r) /\ runs[r].stdinEnded /\ runs[r].stdin = <<>>) =>
           /\ consoleLog' = consoleLog
           /\ PagedBy(r, "ctrl-n", options.pageNum + 1)
           /\ PagedBy(r, "ctrl-p",
                      IF options.pageNum = 1 THEN 1 ELSE options.pageNum - 1)
      ]_vars
  /\ []((proc = "running" /\ consoleLog = <<>>) =>
         \E r \in DOMAIN runs : CanAbort(r) \/ CanClose(r))

\* C11 witness: a live picker whose request came back with an empty page: its
\* input is ended with no label, and a paging key can still be pressed.
EmptyPickerSession ==
  \E r \in DOMAIN runs :
    /\ runs[r].fzf = "live"
    /\ runs[r].request = "ok"
    /\ runs[r].result = <<>>
    /\ runs[r].stdinEnded
    /\ runCount < MaxRuns

\* C12: once the process has ended or a selection was printed, no picker is
\* live: every picker that was started has exited or was killed.
TerminalNoLivePicker ==
  (proc = "exited" \/ consoleLog # <<>>) =>
    \A r \in DOMAIN runs : runs[r].fzf \in {"exited", "killed", "closed"}

\* C13: a picker whose input was ended has been written one label for each
\* item of its page, in the page's order; label k (from 0) is "[k] " followed
\* by the title of item k, and the number matched at the start of label k
\* indexes item k of the page.
LabelsRoundTrip ==
  \A r \in DOMAIN runs :
    runs[r].stdinEnded =>
      /\ Len(runs[r].stdin) = Len(runs[r].result)
      /\ \A k \in 0..(Len(runs[r].result) - 1) :
           LET label == runs[r].stdin[k + 1]
               item  == runs[r].result[k + 1]
           IN  /\ label = <<"[">> \o ToDigits(k) \o <<"]", " ">> \o item.title
               /\ MatchIndex(label) # <<>>
               /\ FromDigits(MatchIndex(label)[1]) = k
               /\ ArrayGet(runs[r].result, MatchIndex(label)[1]) = <<item>>

\* C13 witness: a picker was fed a page of more than ten items while live and
\* has ended with the line of item 10, whose index has two digits.
TwoDigitLabelSelected ==
  \E r \in DOMAIN runs :
    /\ runs[r].fzf = "exited"
    /\ ~lateWrite
    /\ Len(runs[r].result) > 10
    /\ runs[r].stdout = <<"\n">> \o Label(10, runs[r].result[11]) \o <<"\n">>

\* C14: the request of a run for page p, with page size s, carries for the web
\* search num = s and start = (p - 1) * s, which is 0 for page 1, is never
\* negative, and is one page size below the start of the request for page
\* p + 1; for the Q&A site it carries page = p and pagesize = s.
RequestPaging ==
  \A r \in DOMAIN runs :
    LET qs == runs[r].qs
        p  == runs[r].page
        s  == options.resultsPerPage
    IN  /\ p >= 1
        /\ s >= 1
        /\ IF options.site = "google"
           THEN /\ qs.num = s
                /\ qs.start = (p - 1) * s
                /\ qs.start >= 0
                /\ p = 1 => qs.start = 0
                /\ GoogleQs([options EXCEPT !.pageNum = p + 1]).start
                     = qs.start + qs.num
           ELSE /\ qs.page = p
                /\ qs.pagesize = s

\* C14 witness: a request of the web search for page 2 with the default page
\* size has been sent.
SecondPageRequested ==
  \E r \in DOMAIN runs :
    /\ options.site = "google"
    /\ options.resultsPerPage = DefaultResultsPerPage
    /\ runs[r].page = 2
    /\ runs[r].request = "pending"
    /\ runs[r].qs.start = DefaultResultsPerPage

\* C15: no step changes the query, the site or the page size of the options,
\* and a step that changes the page number is the exit handler of a picker
\* that printed ctrl-n or ctrl-p.
OnlyPagingChangesPageNum ==
  [][/\ options'.query = options.query
     /\ options'.site = options.site
     /\ options'.resultsPerPage = options.resultsPerPage
     /\ options'.pageNum # options.pageNum =>
          \E r \in DOMAIN runs :
            /\ Closes(r)
            /\ runs[r].stdout \in {<<"ctrl-n", "\n">>, <<"ctrl-p", "\n">>}
    ]_vars

\* C15 witness: after paging to page 2 and the response for it, an entry was
\* selected and printed, and the page number is still 2.
SelectedAfterPaging ==
  /\ nav = <<"ctrl-n">>
  /\ consoleLog # <<>>
  /\ options.pageNum = 2
  /\ 2 \in DOMAIN savedResults

\* C16: every saved page is an answer of the provider to the request built
\* with the page number it is saved under.
SavedUnderRequestedPage ==
  \A p \in DOMAIN savedResults :
    \E v \in 1..NumVersions :
      savedResults[p] =
        ResultForPage(options.site, BuildQs([options EXCEPT !.pageNum = p]), v)

\* C17: no label and no end of input was written to a picker that was no
\* longer live.
WritesOnlyToLivePicker == ~lateWrite

\* C18: the session of a picker ends (the picker stops being live, or the
\* process ends under it) only after its input was ended, or by its being
\* killed.
PickerFedOrKilled ==
  [][\A r \in DOMAIN runs :
       (/\ runs[r].fzf = "live"
        /\ r \in DOMAIN runs'
        /\ runs'[r].fzf # "live" \/ proc' = "exited")
       => runs[r].stdinEnded \/ runs'[r].fzf = "killed"
    ]_vars

====
